---- MODULE Spec2Model ----
(***************************************************************************)
(* stocks-pipeline: the ingestion Lambda (src/lambdas/ingestion/handler.py) *)
(* and the query Lambda (src/lambdas/query/handler.py) over one DynamoDB    *)
(* table keyed by date.                                                     *)
(*                                                                          *)
(* Numbers.  Prices are integers in thousandths of a currency unit.  A      *)
(* percent change is the exact rational <<num, den>> (den > 0).  A stored   *)
(* decimal string is <<"dec", n>> with n in ten-thousandths; any other      *)
(* string is <<"text">>.  Python's binary floats are replaced by exact      *)
(* decimal arithmetic; round() is round-half-to-even as in Python 3.        *)
(*                                                                          *)
(* Dates.  A day is its ordinal (date.toordinal, shifted so that 0 is       *)
(* 2024-12-24); an ISO date string is the tuple <<year, month, day>>, whose *)
(* lexicographic order is the order of the zero-padded strings.             *)
(***************************************************************************)
EXTENDS Integers, Sequences, FiniteSets, TLC

\* ---------------------------------------------------------------- bounds
NumTickers == 2      \* length of the watchlist prefix the model runs on
MaxDays    == 1      \* midnights that pass in one behaviour

\* ------------------------------------------------------- program constants
FULL_WATCHLIST == <<"AAPL", "MSFT", "GOOGL", "AMZN", "TSLA", "NVDA">>
WATCHLIST      == SubSeq(FULL_WATCHLIST, 1, NumTickers)
RETRY_DELAY    == 1
MAX_RETRIES    == 2
DAYS_TO_RETURN == 7

\* Concurrent invocations of the ingestion Lambda (execution environments).
Procs == {"inv1", "inv2"}

\* ------------------------------------------------------------ arithmetic
Abs(n) == IF n < 0 THEN -n ELSE n

RECURSIVE Pow2(_)
Pow2(n) == IF n <= 0 THEN 1 ELSE 2 * Pow2(n - 1)

\* round(n / d) to an integer, ties to even (d > 0).
RoundHalfEven(n, d) ==
    LET q == n \div d
        r == n - q * d
    IN  IF 2 * r < d THEN q
        ELSE IF 2 * r > d THEN q + 1
        ELSE IF q % 2 = 0 THEN q ELSE q + 1

\* calculate_pct_change: ((close - open) / open) * 100, as an exact rational.
calculate_pct_change(open_price, close_price) ==
    IF open_price > 0
    THEN <<(close_price - open_price) * 100, open_price>>
    ELSE <<(open_price - close_price) * 100, -open_price>>

\* abs(x["pct_change"]) compared: |a| > |b| for rationals with den > 0.
AbsGreater(a, b) == Abs(a[1]) * b[2] > Abs(b[1]) * a[2]

\* round(pct_change, 4), in ten-thousandths of a percent.
Round4(pct) == RoundHalfEven(pct[1] * 10000, pct[2])

\* round(closing_price, 2), in hundredths (the price is in thousandths).
Round2(price) == RoundHalfEven(price, 10)

\* str(...) of a rounded number: the decimal string, in ten-thousandths.
StrDec4(units) == <<"dec", units>>
StrDec2(cents) == <<"dec", cents * 100>>

\* ---------------------------------------------------------------- dates
\* date.isoformat() of the day with ordinal n (0 is 2024-12-24).
IsoDate(n) == IF n <= 7 THEN <<2024, 12, 24 + n>> ELSE <<2025, 1, n - 7>>

\* a < b for ISO date strings (Python's str comparison).
IsoLess(a, b) ==
    \/ a[1] < b[1]
    \/ a[1] = b[1] /\ a[2] < b[2]
    \/ a[1] = b[1] /\ a[2] = b[2] /\ a[3] < b[3]

\* ------------------------------------------------------ upstream outcomes
\* One daily bar of the market-data API: a JSON object with some of the
\* keys o, O, c, C.
Bars ==
    { [o |-> 2000, c |-> 2020],            \* +1 %
      [o |-> 2000, c |-> 1980],            \* -1 %
      [O |-> 2000, C |-> 1900],            \* -5 %, upper-case keys
      [o |-> 3000, c |-> 3005],            \* +0.1666.. %, close 3.005
      [o |-> 0, O |-> 0, c |-> 0, C |-> 0],\* open 0
      [o |-> 2000, c |-> 0, C |-> 0],      \* close 0 under both keys
      [o |-> 2000, c |-> 0],               \* close 0 under c only
      [o |-> 2000],                        \* close missing
      [c |-> 2000] }                       \* open missing

Bodies == {<<"invalid">>} \cup {<<"json", <<>>>>} \cup {<<"json", <<b>>>> : b \in Bars}

\* What one requests.get call can end in.
Upstream ==
    {[kind |-> "response", status |-> 200, body |-> b] : b \in Bodies}
    \cup {[kind |-> "response", status |-> s, body |-> <<"invalid">>] :
            s \in {429, 500, 502, 503, 504, 501, 404, 401}}
    \cup {[kind |-> k] : k \in {"Timeout", "ConnectionError", "Exception"}}

\* bar.get(k1) or bar.get(k2): the first value that is neither None nor 0,
\* else the second (which may be None).
GetOr(bar, k1, k2) ==
    IF k1 \in DOMAIN bar /\ bar[k1] # 0 THEN <<bar[k1]>>
    ELSE IF k2 \in DOMAIN bar THEN <<bar[k2]>>
    ELSE <<>>

\* fetch_ticker on a 200 response (lines 72-92): <<>> is None, <<q>> a quote.
ParseOk(body) ==
    IF body[1] # "json" THEN <<>>                  \* resp.json() raises
    ELSE IF body[2] = <<>> THEN <<>>               \* not results
    ELSE LET bar         == body[2][1]
             open_price  == GetOr(bar, "o", "O")
             close_price == GetOr(bar, "c", "C")
         IN  IF open_price = <<>> \/ close_price = <<>> THEN <<>>
             ELSE IF open_price[1] = 0 THEN <<>>
             ELSE <<[O |-> open_price[1], C |-> close_price[1]]>>

\* An outcome without its body: <<"status", code>> or <<exception>>.
OutcomeClass(out) ==
    IF out.kind = "response" THEN <<"status", out.status>> ELSE <<out.kind>>

\* The body fetch_ticker reads: that of a 200 response (line 73).
ResponseBody(out) ==
    IF out.kind = "response" /\ out.status = 200 THEN out.body ELSE <<"none">>

\* The statuses fetch_ticker retries after a fixed delay (line 100).
ServerErrorStatusesAll5xx == {500, 501, 502, 503, 504}
ServerErrorStatuses == {500, 502, 503, 504}

\* The exceptions of requests.get that fetch_ticker retries (line 109).
RetriedExceptions == {"Timeout"}

\* The last value of `attempt` in range(1, MAX_RETRIES + 2) (line 68).
LastAttemptOneMore == MAX_RETRIES + 2
LastAttempt == MAX_RETRIES + 1

\* One pass of the loop body of fetch_ticker (lines 69-120) on the outcome
\* of its request: whether the function returns, what it returns, and the
\* delays it sleeps before continuing.
HandleOutcome(att, out) ==
    IF out.kind = "response" THEN
        IF out.status = 200 THEN
            [returns |-> TRUE, data |-> ParseOk(out.body), slept |-> <<>>]
        ELSE IF out.status = 429 THEN
            [returns |-> FALSE, data |-> <<>>,
             slept |-> <<RETRY_DELAY * Pow2(att - 1)>>]
        ELSE IF out.status \in ServerErrorStatuses THEN
            [returns |-> FALSE, data |-> <<>>, slept |-> <<RETRY_DELAY>>]
        ELSE [returns |-> TRUE, data |-> <<>>, slept |-> <<>>]
    ELSE IF out.kind \in RetriedExceptions THEN
        [returns |-> FALSE, data |-> <<>>, slept |-> <<RETRY_DELAY>>]
    ELSE [returns |-> TRUE, data |-> <<>>, slept |-> <<>>]

\* ------------------------------------------------------------- selection
\* max(results, key=lambda x: abs(x["pct_change"])): the first maximal entry.
RECURSIVE MaxFrom(_, _, _)
MaxFrom(seq, k, best) ==
    IF k > Len(seq) THEN best
    ELSE MaxFrom(seq, k + 1,
                 IF AbsGreater(seq[k].pct_change, best.pct_change)
                 THEN seq[k] ELSE best)

RECURSIVE MaxFromLast(_, _, _)
MaxFromLast(seq, k, best) ==
    IF k > Len(seq) THEN best
    ELSE MaxFromLast(seq, k + 1,
                     IF AbsGreater(best.pct_change, seq[k].pct_change)
                     THEN best ELSE seq[k])

SelectWinnerLastOnTie(res) == MaxFromLast(res, 2, res[1])
SelectWinner(res) == MaxFrom(res, 2, res[1])

\* ------------------------------------------------------------------ state
VARIABLES
    store,          \* the table: a set of items (functions attribute -> value)
    lastPut,        \* history: date -> the item of the last put applied for it
    today,          \* date.today(), as a day ordinal
    now,            \* datetime.now(), as a logical timestamp
    env,            \* the environment: which invocations run, what upstream can answer
    pc,             \* per invocation: where main is
    trade_date,     \* per invocation: main's trade_date
    idx,            \* per invocation: position of main's loop in WATCHLIST
    attempt,        \* per invocation: fetch_ticker's loop variable
    requests,       \* per invocation: requests.get calls of the current fetch_ticker
    waits,          \* per invocation: delays slept inside the current fetch_ticker
    lastOutcome,    \* per invocation: what the last requests.get of the current fetch_ticker ended in
    lastBody,       \* per invocation: the body of that response when its status was 200
    secretCalls,    \* per invocation: get_secret_value calls of this run
    secretOutcome,  \* per invocation: what get_secret_value ended in
    fetched,        \* per invocation: tickers fetch_ticker was called with
    data,           \* per invocation: what fetch_ticker returned
    results,        \* per invocation: main's results
    failed_tickers, \* per invocation: main's failed_tickers
    item,           \* per invocation: the Item built by write_winner
    puts,           \* per invocation: put_item calls of this run
    putOutcome,     \* per invocation: what put_item ended in
    result,         \* per invocation: how main ended
    qpc,            \* query Lambda: where main is
    qMethod,        \* query Lambda: event["httpMethod"]
    qRange,         \* query Lambda: date_range
    qItems,         \* query Lambda: items returned by query_movers
    qUnprocessed,   \* query Lambda: UnprocessedKeys of the batch read
    qReads,         \* query Lambda: batch_get_item calls of this request
    qBatchOutcome,  \* query Lambda: what batch_get_item ended in
    qResponse       \* query Lambda: how main ended

clockVars == <<today, now>>
storeVars == <<store, lastPut>>
runVars   == <<pc, trade_date, idx, attempt, requests, waits, lastOutcome, lastBody,
               secretCalls, secretOutcome, fetched, data, results,
               failed_tickers, item, puts, putOutcome, result>>
queryVars == <<qpc, qMethod, qRange, qItems, qUnprocessed, qReads,
               qBatchOutcome, qResponse>>
vars      == <<env, clockVars, storeVars, runVars, queryVars>>

NoResult == [kind |-> "none"]
NoItem   == <<>>

\* ------------------------------------------------------------------- Init
IngestInit ==
    /\ pc = [p \in Procs |-> "idle"]
    /\ trade_date = [p \in Procs |-> IsoDate(0)]
    /\ idx = [p \in Procs |-> 1]
    /\ attempt = [p \in Procs |-> 1]
    /\ requests = [p \in Procs |-> 0]
    /\ waits = [p \in Procs |-> <<>>]
    /\ lastOutcome = [p \in Procs |-> <<"none">>]
    /\ lastBody = [p \in Procs |-> <<"none">>]
    /\ secretCalls = [p \in Procs |-> 0]
    /\ secretOutcome = [p \in Procs |-> "none"]
    /\ fetched = [p \in Procs |-> <<>>]
    /\ data = [p \in Procs |-> <<>>]
    /\ results = [p \in Procs |-> <<>>]
    /\ failed_tickers = [p \in Procs |-> <<>>]
    /\ item = [p \in Procs |-> NoItem]
    /\ puts = [p \in Procs |-> 0]
    /\ putOutcome = [p \in Procs |-> "none"]
    /\ result = [p \in Procs |-> NoResult]

QueryInit ==
    /\ qpc = "idle"
    /\ qMethod = "GET"
    /\ qRange = <<>>
    /\ qItems = <<>>
    /\ qUnprocessed = {}
    /\ qReads = 0
    /\ qBatchOutcome = "none"
    /\ qResponse = NoResult

\* A record an earlier run left in the table for the day with ordinal `day`.
PriorItem(day) ==
    [date |-> IsoDate(day),
     ticker |-> "NVDA",
     percent_change |-> StrDec4(Round4(calculate_pct_change(2000, 2050))),
     closing_price |-> StrDec2(Round2(2050)),
     ingested_at |-> <<IsoDate(day), 0>>]

\* The tables a run can find: empty, or holding the record of an earlier
\* run for today or for yesterday.
InitStores == {{}, {PriorItem(7)}, {PriorItem(6)}}

\* One invocation at a time, every upstream outcome.
Init ==
    /\ env = [procs |-> {"inv1"}, upstream |-> Upstream]
    /\ \E S \in InitStores :
         /\ store = S
         /\ lastPut = [d \in {x.date : x \in S} |-> CHOOSE x \in S : x.date = d]
    /\ today = 7
    /\ now = 1
    /\ IngestInit
    /\ QueryInit

\* The upstream outcomes of the concurrent specification: two quotes and
\* one failure.
ConcUpstream ==
    { [kind |-> "response", status |-> 200, body |-> <<"json", <<[o |-> 2000, c |-> 2020]>>>>],
      [kind |-> "response", status |-> 200, body |-> <<"json", <<[O |-> 2000, C |-> 1900]>>>>],
      [kind |-> "ConnectionError"] }

\* Two invocations that may overlap, on an empty table.
InitConc ==
    /\ env = [procs |-> Procs, upstream |-> ConcUpstream]
    /\ store = {}
    /\ lastPut = <<>>
    /\ today = 7
    /\ now = 1
    /\ IngestInit
    /\ QueryInit

\* ------------------------------------------------------- ingestion: main
\* The trigger invokes main (lines 151-154, 163-164).
Invoke(p) ==
    /\ p \in env.procs
    /\ pc[p] = "idle"
    /\ pc' = [pc EXCEPT ![p] = "get_key"]
    /\ trade_date' = [trade_date EXCEPT ![p] = IsoDate(today)]
    /\ UNCHANGED <<env, clockVars, storeVars, queryVars, idx, attempt,
                   requests, waits, lastOutcome, lastBody, secretCalls, secretOutcome,
                   fetched, data, results, failed_tickers, item, puts,
                   putOutcome, result>>

\* What get_secret_value can end in: the secret, a ClientError, or another
\* exception (a secret without SecretString: KeyError).
SecretOutcomes == {"ok", "ClientError", "KeyError"}

\* main after get_api_key (lines 157-160): where it goes and what it returns.
AfterGetKeyIgnoringFailure(out) == [next |-> "loop", result |-> NoResult]
AfterGetKey(out) ==
    IF out = "ok" THEN [next |-> "loop", result |-> NoResult]
    ELSE [next |-> "done",
          result |-> [kind |-> "return", statusCode |-> 500,
                      body |-> [message |-> "Failed to retrieve API key"]]]

\* get_api_key called by main (lines 48-55, 157-160).
GetApiKey(p) ==
    /\ pc[p] = "get_key"
    /\ \E out \in SecretOutcomes :
         /\ pc' = [pc EXCEPT ![p] = AfterGetKey(out).next]
         /\ result' = [result EXCEPT ![p] = AfterGetKey(out).result]
         /\ secretOutcome' = [secretOutcome EXCEPT ![p] = out]
    /\ secretCalls' = [secretCalls EXCEPT ![p] = @ + 1]
    /\ UNCHANGED <<env, clockVars, storeVars, queryVars, trade_date,
                   idx, attempt, requests, waits, lastOutcome, lastBody, fetched, data,
                   results, failed_tickers, item, puts, putOutcome>>

\* main calls fetch_ticker for the next ticker (lines 166-167, 65-68).
CallFetch(p) ==
    /\ pc[p] = "loop"
    /\ idx[p] <= Len(WATCHLIST)
    /\ pc' = [pc EXCEPT ![p] = "request"]
    /\ fetched' = [fetched EXCEPT ![p] = Append(@, WATCHLIST[idx[p]])]
    /\ UNCHANGED <<env, clockVars, storeVars, queryVars, trade_date,
                   idx, attempt, requests, waits, lastOutcome, lastBody, secretCalls,
                   secretOutcome, data, results, failed_tickers, item, puts,
                   putOutcome, result>>

\* One requests.get of fetch_ticker and the handling of its outcome
\* (lines 69-123).
Request(p) ==
    /\ pc[p] = "request"
    /\ \E out \in env.upstream :
         LET h == HandleOutcome(attempt[p], out) IN
         /\ requests' = [requests EXCEPT ![p] = @ + 1]
         /\ lastOutcome' = [lastOutcome EXCEPT ![p] = OutcomeClass(out)]
         /\ lastBody' = [lastBody EXCEPT ![p] = ResponseBody(out)]
         /\ waits' = [waits EXCEPT ![p] = @ \o h.slept]
         /\ IF h.returns
            THEN /\ data' = [data EXCEPT ![p] = h.data]
                 /\ pc' = [pc EXCEPT ![p] = "returned"]
                 /\ UNCHANGED attempt
            ELSE IF attempt[p] < LastAttempt
            THEN /\ attempt' = [attempt EXCEPT ![p] = @ + 1]
                 /\ UNCHANGED <<data, pc>>
            ELSE /\ data' = [data EXCEPT ![p] = <<>>]
                 /\ pc' = [pc EXCEPT ![p] = "returned"]
                 /\ UNCHANGED attempt
    /\ UNCHANGED <<env, clockVars, storeVars, queryVars, trade_date,
                   idx, secretCalls, secretOutcome, fetched, results,
                   failed_tickers, item, puts, putOutcome, result>>

\* main's bookkeeping for one fetched ticker (lines 170-179).
CollectDroppingFailure(res, failed, ticker, d) ==
    IF d = <<>> THEN [results |-> res, failed_tickers |-> failed]
    ELSE [results |-> Append(res,
                        [ticker |-> ticker,
                         pct_change |-> calculate_pct_change(d[1].O, d[1].C),
                         closing_price |-> d[1].C]),
          failed_tickers |-> failed]
Collect(res, failed, ticker, d) ==
    IF d = <<>> THEN [results |-> res, failed_tickers |-> Append(failed, ticker)]
    ELSE [results |-> Append(res,
                        [ticker |-> ticker,
                         pct_change |-> calculate_pct_change(d[1].O, d[1].C),
                         closing_price |-> d[1].C]),
          failed_tickers |-> failed]

\* main takes fetch_ticker's return value (lines 167-180).
ConsumeResult(p) ==
    /\ pc[p] = "returned"
    /\ LET c == Collect(results[p], failed_tickers[p], WATCHLIST[idx[p]], data[p]) IN
         /\ results' = [results EXCEPT ![p] = c.results]
         /\ failed_tickers' = [failed_tickers EXCEPT ![p] = c.failed_tickers]
    /\ idx' = [idx EXCEPT ![p] = @ + 1]
    /\ pc' = [pc EXCEPT ![p] = "loop"]
    /\ attempt' = [attempt EXCEPT ![p] = 1]
    /\ requests' = [requests EXCEPT ![p] = 0]
    /\ waits' = [waits EXCEPT ![p] = <<>>]
    /\ data' = [data EXCEPT ![p] = <<>>]
    /\ lastOutcome' = [lastOutcome EXCEPT ![p] = <<"none">>]
    /\ lastBody' = [lastBody EXCEPT ![p] = <<"none">>]
    /\ UNCHANGED <<env, clockVars, storeVars, queryVars, trade_date,
                   secretCalls, secretOutcome, fetched, item, puts,
                   putOutcome, result>>

\* The "no data" guard of main (line 187).
NoDataLoose(res) == Len(res) <= 1
NoData(res) == res = <<>>

\* After the loop: the guard (lines 187-192); otherwise on to write_winner.
Decide(p) ==
    /\ pc[p] = "loop"
    /\ idx[p] > Len(WATCHLIST)
    /\ IF NoData(results[p])
       THEN /\ result' = [result EXCEPT ![p] =
                  [kind |-> "return", statusCode |-> 200,
                   body |-> [message |-> "No data",
                             date |-> trade_date[p]]]]
            /\ pc' = [pc EXCEPT ![p] = "done"]
       ELSE /\ pc' = [pc EXCEPT ![p] = "write"]
            /\ UNCHANGED result
    /\ UNCHANGED <<env, clockVars, storeVars, queryVars, trade_date,
                   idx, attempt, requests, waits, lastOutcome, lastBody, secretCalls,
                   secretOutcome, fetched, data, results, failed_tickers,
                   item, puts, putOutcome>>

\* The Item of write_winner (lines 135-141) for the winner of main (195).
BuildItem(res, date, day, ts) ==
    LET winner == SelectWinner(res) IN
    [date |-> date,
     ticker |-> winner.ticker,
     percent_change |-> StrDec4(Round4(winner.pct_change)),
     closing_price |-> StrDec2(Round2(winner.closing_price)),
     ingested_at |-> <<IsoDate(day), ts>>]

\* main selects the winner and write_winner builds the Item, reading the
\* clock (lines 195-207, 133-141).
PrepareWrite(p) ==
    /\ pc[p] = "write"
    /\ item' = [item EXCEPT ![p] = BuildItem(results[p], trade_date[p], today, now)]
    /\ now' = now + 1
    /\ pc' = [pc EXCEPT ![p] = "put"]
    /\ UNCHANGED <<env, today, storeVars, queryVars, trade_date, idx,
                   attempt, requests, waits, lastOutcome, lastBody, secretCalls,
                   secretOutcome, fetched, data, results, failed_tickers,
                   puts, putOutcome, result>>

\* What table.put_item can end in: applied; a ClientError (not applied); a
\* read timeout of a request the table did apply.
PutOutcomes == {"ok", "ClientError", "ReadTimeoutError"}
PutApplied(out) == out \in {"ok", "ReadTimeoutError"}

\* put_item on the table: the item replaces the one with its key, if any.
PutItemIfAbsent(tbl, it) ==
    IF \E x \in tbl : x.date = it.date THEN tbl ELSE tbl \cup {it}
PutItemInto(tbl, it) == {x \in tbl : x.date # it.date} \cup {it}

\* The run summary main returns (lines 209-219).
Summary(res, failed, date) ==
    LET winner == SelectWinner(res) IN
    [date |-> date,
     winner |-> winner.ticker,
     percent_change |-> Round4(winner.pct_change),
     closing_price |-> Round2(winner.closing_price),
     tickers_processed |-> Len(res),
     tickers_failed |-> failed]

\* How main ends after put_item (lines 144-146, 202-219): write_winner
\* re-raises and main does not catch.
AfterPutSwallowingFailure(out, summary) ==
    [kind |-> "return", statusCode |-> 200, body |-> summary]
AfterPut(out, summary) ==
    IF out = "ok"
    THEN [kind |-> "return", statusCode |-> 200, body |-> summary]
    ELSE [kind |-> "raise", error |-> out]

\* table.put_item and the end of main (lines 134-146, 209-219).
PutItem(p) ==
    /\ pc[p] = "put"
    /\ \E out \in PutOutcomes :
         /\ IF PutApplied(out)
            THEN /\ store' = PutItemInto(store, item[p])
                 /\ lastPut' = (item[p].date :> item[p]) @@ lastPut
            ELSE UNCHANGED storeVars
         /\ result' = [result EXCEPT ![p] =
                AfterPut(out, Summary(results[p], failed_tickers[p], trade_date[p]))]
         /\ putOutcome' = [putOutcome EXCEPT ![p] = out]
    /\ puts' = [puts EXCEPT ![p] = @ + 1]
    /\ pc' = [pc EXCEPT ![p] = "done"]
    /\ UNCHANGED <<env, clockVars, queryVars, trade_date, idx, attempt,
                   requests, waits, lastOutcome, lastBody, secretCalls, secretOutcome,
                   fetched, data, results, failed_tickers, item>>

\* Midnight passes: date.today() moves on.
AdvanceDay ==
    /\ today < 7 + MaxDays
    /\ today' = today + 1
    /\ UNCHANGED <<env, now, storeVars, runVars, queryVars>>

Next ==
    \/ \E p \in Procs : Invoke(p)
    \/ \E p \in Procs : GetApiKey(p)
    \/ \E p \in Procs : CallFetch(p)
    \/ \E p \in Procs : Request(p)
    \/ \E p \in Procs : ConsumeResult(p)
    \/ \E p \in Procs : Decide(p)
    \/ \E p \in Procs : PrepareWrite(p)
    \/ \E p \in Procs : PutItem(p)
    \/ AdvanceDay

Spec == Init /\ [][Next]_vars

SpecConc == InitConc /\ [][Next]_vars

\* ------------------------------------------------------------ query Lambda
CORS_HEADERS ==
    [AccessControlAllowOrigin  |-> "*",
     AccessControlAllowHeaders |-> "Content-Type",
     AccessControlAllowMethods |-> "GET,OPTIONS",
     ContentType               |-> "application/json"]

\* get_date_range(days): the ISO dates of day, day - 1, .. day - (days - 1).
get_date_range_from_yesterday(day, days) == [i \in 1..days |-> IsoDate(day - i)]
get_date_range(day, days) == [i \in 1..days |-> IsoDate(day - (i - 1))]

\* The attributes the batch read projects (line 70).
Projected == {"date", "ticker", "percent_change", "closing_price"}
Project(it) == [a \in (DOMAIN it) \cap Projected |-> it[a]]

Range(seq) == {seq[i] : i \in 1..Len(seq)}

\* All orders of a finite set, as sequences.
Orders(S) ==
    {f \in [1..Cardinality(S) -> S] : \A i, j \in 1..Cardinality(S) : f[i] = f[j] => i = j}

\* float(item.get(attr, 0)): <<v>> in ten-thousandths, or <<>> for ValueError.
ToFloat(it, attr) ==
    IF attr \notin DOMAIN it THEN <<0>>
    ELSE IF it[attr][1] = "dec" THEN <<it[attr][2]>>
    ELSE <<>>

\* Whether format_item raises on the item (KeyError, ValueError).
FormatRaises(it) ==
    \/ "date" \notin DOMAIN it
    \/ "ticker" \notin DOMAIN it
    \/ ToFloat(it, "percent_change") = <<>>
    \/ ToFloat(it, "closing_price") = <<>>

\* format_item (lines 90-97): the numbers rounded to 2 digits, in hundredths.
format_item(it) ==
    [date |-> it.date,
     ticker |-> it.ticker,
     percent_change |-> RoundHalfEven(ToFloat(it, "percent_change")[1], 100),
     closing_price |-> RoundHalfEven(ToFloat(it, "closing_price")[1], 100)]

\* sorted(..., key=lambda x: x["date"], reverse=True): a stable sort.
RECURSIVE InsertDesc(_, _)
InsertDesc(sorted, x) ==
    IF sorted = <<>> THEN <<x>>
    ELSE IF IsoLess(Head(sorted).date, x.date) THEN <<x>> \o sorted
    ELSE <<Head(sorted)>> \o InsertDesc(Tail(sorted), x)

RECURSIVE SortedDescending(_)
SortedDescending(seq) ==
    IF seq = <<>> THEN <<>>
    ELSE InsertDesc(SortedDescending(SubSeq(seq, 1, Len(seq) - 1)), seq[Len(seq)])

\* The event reaches main (lines 102-112).
QReceive ==
    /\ qpc = "idle"
    /\ \E m \in {"GET", "OPTIONS"} :
         /\ qMethod' = m
         /\ IF m = "OPTIONS"
            THEN /\ qResponse' = [kind |-> "return", statusCode |-> 200,
                                  headers |-> CORS_HEADERS, body |-> <<>>]
                 /\ qpc' = "done"
                 /\ UNCHANGED qRange
            ELSE /\ qRange' = get_date_range(today, DAYS_TO_RETURN)
                 /\ qpc' = "read"
                 /\ UNCHANGED qResponse
    /\ UNCHANGED <<env, clockVars, storeVars, runVars, qItems, qUnprocessed,
                   qReads, qBatchOutcome>>

\* What batch_get_item can end in: a response, a ClientError, or another
\* exception of the client (no endpoint).
BatchOutcomes == {"ok", "ClientError", "EndpointConnectionError"}

MaxUnprocessed == 2

\* The handler boundary of main (lines 133-139): what an exception becomes.
OnExceptionPropagate(e) == [kind |-> "raise", error |-> e]
OnException(e) ==
    [kind |-> "return", statusCode |-> 500, headers |-> CORS_HEADERS,
     body |-> [error |-> "Internal server error", message |-> e]]

\* query_movers (lines 57-87): one batch read; the table answers with the
\* items of the keys it processed, in any order.
QBatchGet ==
    /\ qpc = "read"
    /\ qReads' = qReads + 1
    /\ \E out \in BatchOutcomes :
         /\ qBatchOutcome' = out
         /\ IF out = "ok"
            THEN \E U \in {u \in SUBSET Range(qRange) : Cardinality(u) <= MaxUnprocessed} :
                 \E order \in Orders({Project(x) : x \in {y \in store :
                                        y.date \in Range(qRange) \ U}}) :
                   /\ qItems' = order
                   /\ qUnprocessed' = U
                   /\ qpc' = "format"
                   /\ UNCHANGED qResponse
            ELSE /\ qResponse' = OnException(out)
                 /\ qpc' = "done"
                 /\ UNCHANGED <<qItems, qUnprocessed>>
    /\ UNCHANGED <<env, clockVars, storeVars, runVars, qMethod, qRange>>

\* main formats, sorts and answers (lines 115-139).
QRespond ==
    /\ qpc = "format"
    /\ IF \E i \in 1..Len(qItems) : FormatRaises(qItems[i])
       THEN qResponse' = OnException("format_item")
       ELSE LET movers == SortedDescending([i \in 1..Len(qItems) |-> format_item(qItems[i])])
            IN  qResponse' = [kind |-> "return", statusCode |-> 200,
                              headers |-> CORS_HEADERS,
                              body |-> [movers |-> movers, count |-> Len(movers)]]
    /\ qpc' = "done"
    /\ UNCHANGED <<env, clockVars, storeVars, runVars, qMethod, qRange, qItems,
                   qUnprocessed, qReads, qBatchOutcome>>

\* A well-formed record of the table for the day with ordinal `day`.
GoodItem(day) ==
    [date |-> IsoDate(day),
     ticker |-> FULL_WATCHLIST[(day % 6) + 1],
     percent_change |-> StrDec4(12350 + day),
     closing_price |-> StrDec2(20000 + day),
     ingested_at |-> <<IsoDate(day), day>>]

\* Records another writer of the table can leave: no ticker; a
\* percent_change that is no number; the key and the ticker alone.
NoTickerItem(day) == [date |-> IsoDate(day), percent_change |-> StrDec4(10000),
                      closing_price |-> StrDec2(100)]
TextItem(day) == [date |-> IsoDate(day), ticker |-> "TSLA",
                  percent_change |-> <<"text">>, closing_price |-> StrDec2(100)]
BareItem(day) == [date |-> IsoDate(day), ticker |-> "AMZN"]

\* The tables the query Lambda is checked on: for each of five days, no
\* record or one of the given ones.
QueryStores ==
    { a \cup b \cup c \cup d \cup e :
        a \in {{}, {GoodItem(4)}},
        b \in {{}, {GoodItem(7)}},
        c \in {{}, {GoodItem(8)}, {NoTickerItem(8)}},
        d \in {{}, {GoodItem(10)}, {TextItem(10)}},
        e \in {{}, {GoodItem(11)}, {BareItem(11)}} }

InitQuery ==
    /\ env = [procs |-> {}, upstream |-> {}]
    /\ store \in QueryStores
    /\ lastPut = <<>>
    /\ today \in {10, 11}
    /\ now = 1
    /\ IngestInit
    /\ QueryInit

NextQuery == QReceive \/ QBatchGet \/ QRespond

SpecQuery == InitQuery /\ [][NextQuery]_vars

\* ===================================================================
\* Properties of the ingestion Lambda
\* ===================================================================

\* |a| = |b| for percent changes.
AbsEqual(a, b) == Abs(a[1]) * b[2] = Abs(b[1]) * a[2]

\* Entry k of res has the largest absolute percent change of res, and is
\* the earliest entry that has it.
EarliestMaximal(res, k) ==
    /\ \A j \in 1..Len(res) : ~AbsGreater(res[j].pct_change, res[k].pct_change)
    /\ \A j \in 1..(k - 1) : AbsGreater(res[k].pct_change, res[j].pct_change)

Succeeded(p) ==
    /\ pc[p] = "done"
    /\ result[p].kind = "return"
    /\ result[p].statusCode = 200
    /\ results[p] # <<>>

\* C1: in a run with at least one successful fetch, the record built and
\* written for the trade date carries the ticker of the quote whose absolute
\* percent change ((close - open) / open * 100) is largest, the earliest in
\* watchlist order among those that tie, and the summary of the run names
\* that ticker as winner.
C1_WinnerIsEarliestMaximal ==
    /\ [](\A p \in Procs :
            /\ item[p] # NoItem =>
                 /\ item[p].date = trade_date[p]
                 /\ \E k \in 1..Len(results[p]) :
                      /\ results[p][k].ticker = item[p].ticker
                      /\ EarliestMaximal(results[p], k)
            /\ Succeeded(p) =>
                 /\ item[p] \in store
                 /\ result[p].body.winner = item[p].ticker
                 /\ result[p].body.date = item[p].date)
    /\ [][\A p \in Procs :
            (pc[p] = "returned" /\ data[p] # <<>> /\ pc'[p] = "loop") =>
               LET e == results'[p][Len(results'[p])] IN
               /\ results'[p] = Append(results[p], e)
               /\ e.ticker = WATCHLIST[idx[p]]
               /\ e.pct_change[1] * data[p][1].O
                    = (data[p][1].C - data[p][1].O) * 100 * e.pct_change[2]]_vars

\* A finished run with two quotes that tie on the absolute change, the
\* first of them written.
C1_Witness ==
    \E p \in Procs :
        /\ Succeeded(p)
        /\ Len(results[p]) >= 2
        /\ AbsEqual(results[p][1].pct_change, results[p][2].pct_change)
        /\ results[p][1].pct_change # results[p][2].pct_change
        /\ EarliestMaximal(results[p], 1)
        /\ item[p].ticker = results[p][1].ticker
        /\ item[p] \in store

TransientOutcomes ==
    {<<"status", 429>>, <<"status", 500>>, <<"status", 502>>,
     <<"status", 503>>, <<"status", 504>>, <<"Timeout">>}

\* C2: fetch_ticker issues at most 3 requests for one ticker, whatever mix
\* of 429, 500/502/503/504 and timeouts it meets, and when the third
\* request ends in one of them too it returns None without another request.
C2_RetryBudget ==
    \A p \in Procs :
        /\ requests[p] <= 3
        /\ pc[p] = "request" => requests[p] <= 2
        /\ (requests[p] = 3 /\ lastOutcome[p] \in TransientOutcomes) =>
              /\ pc[p] = "returned"
              /\ data[p] = <<>>

\* Three requests spent on a mix: the second ended in a 429 (delay 2),
\* the third in a timeout (delay 1); None is returned.
C2_Witness ==
    \E p \in Procs :
        /\ pc[p] = "returned"
        /\ requests[p] = 3
        /\ waits[p] = <<1, 2, 1>>
        /\ lastOutcome[p] = <<"Timeout">>
        /\ data[p] = <<>>

\* The outcomes the claim calls non-transient: a status other than 200,
\* 429, 500, 502, 503, 504, or a connection failure.
NonTransientOutcomes ==
    {<<"status", 501>>, <<"status", 404>>, <<"status", 401>>, <<"ConnectionError">>}

\* C3: after a request that ends in a non-200 status other than 429, 500,
\* 502, 503, 504, or in a connection failure, fetch_ticker returns None at
\* once: no further request and no delay slept after it, whatever is left
\* of the budget; after a timeout with budget left it sleeps and requests
\* again.
C3_NonTransientReturnsAtOnce ==
    \A p \in Procs :
        /\ lastOutcome[p] \in NonTransientOutcomes =>
              /\ pc[p] = "returned"
              /\ data[p] = <<>>
              /\ Len(waits[p]) = requests[p] - 1
        /\ (lastOutcome[p] = <<"Timeout">> /\ requests[p] < 3) =>
              /\ pc[p] = "request"
              /\ Len(waits[p]) = requests[p]
              /\ waits[p][Len(waits[p])] = RETRY_DELAY

\* A 501 on the second request, after one retry: returned with one attempt
\* unused and nothing slept after it.
C3_Witness ==
    \E p \in Procs :
        /\ lastOutcome[p] = <<"status", 501>>
        /\ requests[p] = 2
        /\ Len(waits[p]) = 1
        /\ pc[p] = "returned"
        /\ data[p] = <<>>

\* The tickers of the entries of a result list, in order.
TickersOf(res) == [k \in 1..Len(res) |-> res[k].ticker]

\* seq lists, in watchlist order and without repetition, some tickers of
\* the watchlist.
InWatchlistOrder(seq) ==
    \E pos \in [1..Len(seq) -> 1..Len(WATCHLIST)] :
        /\ \A k \in 1..Len(seq) : seq[k] = WATCHLIST[pos[k]]
        /\ \A j, k \in 1..Len(seq) : j < k => pos[j] < pos[k]

LoopFinished(p) ==
    \/ pc[p] \in {"write", "put"}
    \/ pc[p] = "loop" /\ idx[p] > Len(WATCHLIST)
    \/ pc[p] = "done" /\ secretOutcome[p] = "ok"

\* C4: once the credential is there, a failed ticker never ends the run:
\* the tickers are fetched once each in watchlist order, and at the end of
\* the loop the successes and the failures partition the watchlist, each in
\* watchlist order, so that tickers_processed + len(tickers_failed) is the
\* length of the watchlist.
C4_PartialFailureNeverAborts ==
    \A p \in Procs :
        /\ fetched[p] = SubSeq(WATCHLIST, 1, Len(fetched[p]))
        /\ (secretOutcome[p] = "ok" /\ pc[p] = "done") => fetched[p] = WATCHLIST
        /\ LoopFinished(p) =>
              /\ fetched[p] = WATCHLIST
              /\ InWatchlistOrder(TickersOf(results[p]))
              /\ InWatchlistOrder(failed_tickers[p])
              /\ Range(TickersOf(results[p])) \cap Range(failed_tickers[p]) = {}
              /\ Range(TickersOf(results[p])) \cup Range(failed_tickers[p])
                    = Range(WATCHLIST)
              /\ Len(results[p]) + Len(failed_tickers[p]) = Len(WATCHLIST)
        /\ Succeeded(p) =>
              /\ result[p].body.tickers_processed = Len(results[p])
              /\ result[p].body.tickers_failed = failed_tickers[p]
              /\ result[p].body.tickers_processed
                    + Len(result[p].body.tickers_failed) = Len(WATCHLIST)

\* A finished run whose first ticker failed and whose second succeeded.
C4_Witness ==
    \E p \in Procs :
        /\ Succeeded(p)
        /\ failed_tickers[p] = <<WATCHLIST[1]>>
        /\ TickersOf(results[p]) = SubSeq(WATCHLIST, 2, Len(WATCHLIST))

NoDataResult(p) ==
    /\ pc[p] = "done"
    /\ result[p].kind = "return"
    /\ result[p].statusCode = 200
    /\ result[p].body.message = "No data"

\* C5: a run in which every fetch returned None calls put_item zero times,
\* changes nothing in the table and returns status 200 with the "no data"
\* message; a run calls put_item only with at least one success, then
\* exactly once, and a change of the table is one record keyed by the trade
\* date of the run that makes it.
C5_WritesOnlyWithData ==
    /\ [](\A p \in Procs :
            /\ (pc[p] = "done" /\ secretOutcome[p] = "ok" /\ results[p] = <<>>) =>
                 /\ puts[p] = 0
                 /\ item[p] = NoItem
                 /\ NoDataResult(p)
            /\ (pc[p] = "done" /\ result[p].kind = "return"
                  /\ result[p].statusCode = 200 /\ "message" \in DOMAIN result[p].body) =>
                 /\ results[p] = <<>>
                 /\ failed_tickers[p] = WATCHLIST
                 /\ puts[p] = 0
            /\ puts[p] <= 1
            /\ puts[p] = 1 => (results[p] # <<>> /\ item[p].date = trade_date[p])
            /\ (pc[p] = "done" /\ results[p] # <<>>) => puts[p] = 1)
    /\ [][store' # store =>
            \E p \in Procs :
                /\ pc[p] = "put" /\ pc'[p] = "done"
                /\ results[p] # <<>>
                /\ puts[p] = 0 /\ puts'[p] = 1
                /\ \E it \in store' :
                     /\ it.date = trade_date[p]
                     /\ store' = {x \in store : x.date # trade_date[p]} \cup {it}]_vars

\* A run that ended "no data" on a table holding an earlier record, which
\* is still there.
C5_Witness ==
    \E p \in Procs :
        /\ NoDataResult(p)
        /\ failed_tickers[p] = WATCHLIST
        /\ puts[p] = 0
        /\ store = {PriorItem(7)}
        /\ trade_date[p] = IsoDate(7)

\* C6: when get_secret_value fails the run ends at once with status 500:
\* no request was made for any ticker, put_item was not called, the table
\* is as it was, and get_secret_value was called once.
C6_CredentialFailureAborts ==
    \A p \in Procs :
        /\ secretCalls[p] <= 1
        /\ secretOutcome[p] \notin {"none", "ok"} =>
              /\ pc[p] = "done"
              /\ result[p].kind = "return"
              /\ result[p].statusCode = 500
              /\ secretCalls[p] = 1
              /\ fetched[p] = <<>>
              /\ requests[p] = 0
              /\ lastOutcome[p] = <<"none">>
              /\ results[p] = <<>> /\ failed_tickers[p] = <<>>
              /\ puts[p] = 0
              /\ item[p] = NoItem
              /\ store \in InitStores
              /\ lastPut = [d \in {x.date : x \in store} |-> CHOOSE x \in store : x.date = d]

\* A run ended by a ClientError of the secret store.
C6_Witness ==
    \E p \in Procs :
        /\ secretOutcome[p] = "ClientError"
        /\ pc[p] = "done"
        /\ result[p].statusCode = 500
        /\ store = {PriorItem(7)}

\* C7: when put_item raises, main ends in failure (the exception leaves
\* main; no summary is returned), put_item was called once, and the record
\* of the trade date is the whole new record or what it was.
C7_WriteFailureIsFatal ==
    /\ [](\A p \in Procs :
            putOutcome[p] \notin {"none", "ok"} =>
                /\ pc[p] = "done"
                /\ result[p].kind = "raise"
                /\ puts[p] = 1)
    /\ [][\A p \in Procs :
            (pc[p] = "put" /\ pc'[p] = "done" /\ putOutcome'[p] # "ok") =>
                LET old == {x \in store : x.date = trade_date[p]}
                    new == {x \in store' : x.date = trade_date[p]}
                IN  /\ new = old \/ new = {item[p]}
                    /\ {x \in store' : x.date # trade_date[p]}
                         = {x \in store : x.date # trade_date[p]}
                    /\ item[p].date = trade_date[p]
                    /\ DOMAIN item[p] = {"date", "ticker", "percent_change",
                                         "closing_price", "ingested_at"}]_vars

\* A run ended by a ClientError of put_item, the earlier record of its
\* trade date untouched.
C7_Witness ==
    \E p \in Procs :
        /\ putOutcome[p] = "ClientError"
        /\ pc[p] = "done"
        /\ result[p].kind = "raise"
        /\ trade_date[p] = IsoDate(7)
        /\ item[p].ticker # "NVDA"
        /\ store = {PriorItem(7)}

\* C8: however the runs interleave, the table holds at most one record per
\* date, and that record is, field for field, the Item of the last put_item
\* applied for the date; a put for one date changes no record of another.
C8_LastWriteWins ==
    /\ \A x, y \in store : x.date = y.date => x = y
    /\ {x.date : x \in store} = DOMAIN lastPut
    /\ \A x \in store :
         /\ x = lastPut[x.date]
         /\ DOMAIN x = {"date", "ticker", "percent_change", "closing_price",
                        "ingested_at"}

\* Two runs for the same date, both applied: the table holds the record of
\* inv1 alone, which was built first and landed last, and differs from the
\* other in ticker, percent change and closing price.
C8_Witness ==
    /\ pc["inv1"] = "done" /\ pc["inv2"] = "done"
    /\ putOutcome["inv1"] = "ok" /\ putOutcome["inv2"] = "ok"
    /\ trade_date["inv1"] = trade_date["inv2"]
    /\ item["inv1"].ingested_at[2] < item["inv2"].ingested_at[2]
    /\ item["inv1"].ticker # item["inv2"].ticker
    /\ item["inv1"].percent_change # item["inv2"].percent_change
    /\ item["inv1"].closing_price # item["inv2"].closing_price
    /\ store = {item["inv1"]}

\* ===================================================================
\* Properties of the query Lambda
\* ===================================================================

\* The ISO dates of today - 0 .. today - 6.
Window == {IsoDate(today - k) : k \in 0..6}

\* d1 is a later calendar day than d2.
LaterDay(d1, d2) ==
    \E a, b \in 0..20 : IsoDate(a) = d1 /\ IsoDate(b) = d2 /\ a > b

\* A record that cannot be normalized: no ticker, or a numeric attribute
\* that is no number.
Malformed(x) ==
    \/ "ticker" \notin DOMAIN x
    \/ "percent_change" \in DOMAIN x /\ x.percent_change[1] # "dec"
    \/ "closing_price" \in DOMAIN x /\ x.closing_price[1] # "dec"

\* The response is 200 with the records of `expected`, one mover each, the
\* most recent first, and their number as count.
AnswersWith(expected) ==
    /\ qResponse.kind = "return"
    /\ qResponse.statusCode = 200
    /\ LET movers == qResponse.body.movers IN
         /\ Len(movers) = Cardinality(expected)
         /\ {movers[i].date : i \in 1..Len(movers)} = {x.date : x \in expected}
         /\ \A i \in 1..Len(movers) : \E x \in expected :
              /\ movers[i].date = x.date
              /\ movers[i].ticker = x.ticker
              /\ movers[i].percent_change =
                    (IF "percent_change" \in DOMAIN x
                     THEN RoundHalfEven(x.percent_change[2], 100) ELSE 0)
              /\ movers[i].closing_price =
                    (IF "closing_price" \in DOMAIN x
                     THEN RoundHalfEven(x.closing_price[2], 100) ELSE 0)
              /\ DOMAIN movers[i] = {"date", "ticker", "percent_change", "closing_price"}
         /\ \A i, j \in 1..Len(movers) : i < j => LaterDay(movers[i].date, movers[j].date)
         /\ qResponse.body.count = Len(movers)

\* A GET was answered after a batch read that did not raise, and no record
\* of the window is malformed.
ServedRead ==
    /\ qpc = "done"
    /\ qMethod = "GET"
    /\ qBatchOutcome = "ok"
    /\ \A x \in store : x.date \in Window => ~Malformed(x)

\* C9 as claimed: the answer to a GET holds every stored record of the
\* window today - 0 .. today - 6 and no other.
C9_AsClaimed ==
    ServedRead => AnswersWith({x \in store : x.date \in Window})

\* C9: a GET whose batch read does not raise, on a table whose records of
\* the window today - 0 .. today - 6 can be normalized, is answered with
\* status 200 and exactly the stored records of the window whose keys the
\* batch read did not leave unprocessed (all of them when it left none),
\* the most recent first, count being their number; on an empty table
\* movers is [] and count 0.
C9_RecentMovers ==
    ServedRead =>
        /\ AnswersWith({x \in store : x.date \in Window \ qUnprocessed})
        /\ qUnprocessed = {} => AnswersWith({x \in store : x.date \in Window})
        /\ store = {} => (qResponse.body.movers = <<>> /\ qResponse.body.count = 0)

\* Records for today (2025-01-04), today - 3, today - 4 (2024-12-31) and
\* today - 7, read back with an older one first: the first three are
\* returned, today first, the one of today - 7 is not.
C9_Witness ==
    /\ ServedRead
    /\ qUnprocessed = {}
    /\ today = 11
    /\ store = {GoodItem(11), GoodItem(8), GoodItem(7), GoodItem(4)}
    /\ qItems[1].date = IsoDate(7)
    /\ Len(qResponse.body.movers) = 3
    /\ qResponse.body.movers[1].date = <<2025, 1, 4>>
    /\ qResponse.body.movers[3].date = <<2024, 12, 31>>
    /\ qResponse.body.count = 3

\* C10: an exception while a read is served (the batch read raising, or a
\* returned record without ticker or with a numeric attribute that is no
\* number) becomes a response with status 500, the four CORS headers and a
\* body with error and message; no exception leaves main, and the batch
\* read is made once.
C10_ExceptionsBecome500 ==
    /\ qReads <= 1
    /\ qResponse.kind # "raise"
    /\ qpc = "done" => qResponse.kind = "return"
    /\ (/\ qpc = "done"
        /\ qMethod = "GET"
        /\ \/ qBatchOutcome \in {"ClientError", "EndpointConnectionError"}
           \/ \E i \in 1..Len(qItems) : Malformed(qItems[i])) =>
          /\ qResponse.kind = "return"
          /\ qResponse.statusCode = 500
          /\ qResponse.headers =
                [AccessControlAllowOrigin  |-> "*",
                 AccessControlAllowHeaders |-> "Content-Type",
                 AccessControlAllowMethods |-> "GET,OPTIONS",
                 ContentType               |-> "application/json"]
          /\ DOMAIN qResponse.body = {"error", "message"}
          /\ qReads = 1

\* A read that returned a record without ticker, answered with 500.
C10_Witness ==
    /\ qpc = "done"
    /\ qBatchOutcome = "ok"
    /\ \E i \in 1..Len(qItems) : "ticker" \notin DOMAIN qItems[i]
    /\ Len(qItems) >= 2
    /\ qResponse.statusCode = 500

\* ===================================================================
\* fetch_ticker on a 200 response
\* ===================================================================

\* The bar has an open (a close): one of its two keys is there.
HasOpen(bar)  == "o" \in DOMAIN bar \/ "O" \in DOMAIN bar
HasClose(bar) == "c" \in DOMAIN bar \/ "C" \in DOMAIN bar

\* The open (the close) of a bar that has one.
OpenOf(bar)  == IF "o" \in DOMAIN bar THEN bar["o"] ELSE bar["O"]
CloseOf(bar) == IF "c" \in DOMAIN bar THEN bar["c"] ELSE bar["C"]

\* C11: on a 200 response with a parsed body fetch_ticker returns None
\* exactly when the result set is empty, the first result has no open or no
\* close, or its open is 0; otherwise (the close being any value, 0
\* included) it returns the quote with that result's open and close; in
\* both cases without another request.
C11_AbsentExactlyWhenUnusable ==
    \A p \in Procs :
        (lastOutcome[p] = <<"status", 200>> /\ lastBody[p][1] = "json") =>
            /\ pc[p] = "returned"
            /\ LET rs == lastBody[p][2] IN
               IF \/ rs = <<>>
                  \/ ~HasOpen(rs[1])
                  \/ ~HasClose(rs[1])
                  \/ OpenOf(rs[1]) = 0
               THEN data[p] = <<>>
               ELSE data[p] = <<[O |-> OpenOf(rs[1]), C |-> CloseOf(rs[1])]>>

====
